---- MODULE Spec2Model ----
(***************************************************************************)
(* Model of src/app.py: the explain-and-log operation (get_relevance,      *)
(* get_ai_explanation, save_to_database) and the payment reconciliation    *)
(* operations (check_payment_status, intasend_webhook,                     *)
(* create_user_payment) over the relevance_queries and payments tables.    *)
(*                                                                         *)
(* Python None is the string "None"; a dictionary key that is absent is    *)
(* "None" as well, which is what dict.get returns for it.                  *)
(***************************************************************************)
EXTENDS Integers, Sequences, FiniteSets, TLC

\* ---------------------------------------------------------------- bounds
MaxPhoneLen == 4      \* characters of the enumerated phone strings
MaxPayments == 2      \* rows the payments table may hold
MaxQueries  == 2      \* rows the relevance_queries table may hold
NumWorkers  == 2      \* request threads serving payment requests at once

\* ------------------------------------------------------- program constants
PRICE_PREMIUM_ACCESS == 20

\* ------------------------------------------------------------ input sets
None     == "None"
Workers  == 1..NumWorkers
Invoices == {"INV1", "INV2"}
Email    == "a@x.io"

\* what intasend_service.collect.status hands back: a dict whose 'state' is
\* one of these, or an exception ("raise")
GatewayStates  == {"PENDING", "PROCESSING", "COMPLETE", "FAILED"}
GatewayResults == GatewayStates \cup {"raise"}

\* webhook bodies: JSON null, or an object with an event, a transaction_id
\* and a customer that is an object with an email ("dict") or not an object
\* at all ("malformed")
WebhookEvents == {"payment.completed", "payment.failed"}
Payload(body, event, transaction_id, customer) ==
  [body |-> body, event |-> event, transaction_id |-> transaction_id,
   customer |-> customer]
WebhookPayloads ==
  {Payload("null", None, None, None)}
    \cup {Payload("object", "payment.failed", i, "dict") : i \in Invoices}
    \cup {Payload("object", "payment.completed", i, c) :
            i \in Invoices, c \in {"dict", "malformed"}}

\* explain request bodies: JSON null, or an object whose topic is absent,
\* empty or a non-empty text
Topics        == {"algebra", "physics"}
TopicInputs   == Topics \cup {None, ""}
ExplainBodies == {"object", "null"}

\* phone strings are sequences of characters
PhoneChars == {"0", "2", "4", "5", "7"}
Phone0712345678   == <<"0", "7", "1", "2", "3", "4", "5", "6", "7", "8">>
Phone712345678    == <<"7", "1", "2", "3", "4", "5", "6", "7", "8">>
Phone254712345678 ==
  <<"2", "5", "4", "7", "1", "2", "3", "4", "5", "6", "7", "8">>
PhoneStrings ==
  UNION {[1..n -> PhoneChars] : n \in 1..MaxPhoneLen}
    \cup {Phone0712345678, Phone712345678, Phone254712345678}

\* initiate-payment request bodies: an email that is absent, empty or given;
\* a phone that is absent (hasPhone false), empty or given; and an amount
\* field of the sender's choosing, which the handler never reads
EmailInputs    == {None, "", Email}
RequestPhones  == {<<>>, <<"0", "7">>, <<"7">>, <<"2", "5", "4", "7">>}
RequestAmounts == {1, 5000}
InitiateRequests ==
  {[email |-> e, hasPhone |-> h, phone |-> ph, amount |-> a] :
     e \in EmailInputs, h \in BOOLEAN, ph \in RequestPhones,
     a \in RequestAmounts}
   \ {r \in [email : EmailInputs, hasPhone : {FALSE}, phone : RequestPhones,
              amount : RequestAmounts] : r.phone # <<>>}

\* what collect.mpesa_stk_push does: a response carrying an invoice id, a
\* response without one ("noinvoice"), or an exception ("raise", which is
\* also what a call without credentials ends in)
PushResults == Invoices \cup {"noinvoice", "raise"}

\* what the database does to one call: everything works, connect fails
\* (get_db_connection returns None), or cursor(), execute() or commit()
\* raises mysql.connector.Error
DbFaults == {"ok", "noconn", "cursor", "execute", "commit"}

VARIABLES
  generator,          \* module global: "loaded" or None
  loadAttempts,       \* number of pipeline(...) calls made by the process
  relevance_queries,  \* table relevance_queries, in insertion order
  payments,           \* table payments, in insertion order
  local,              \* per request thread: the payment write it is about to do
  payResp,            \* the last payment-side request answered, and its answer
  explainResp,        \* the last explain request answered, and its answer
  initiated,          \* invoice ids initiate_payment has handed out
  phones              \* a phone string followed by its successive normal forms

vars == <<generator, loadAttempts, relevance_queries, payments, local,
          payResp, explainResp, initiated, phones>>

\* ------------------------------------------------------- inference engine
FallbackMsg  == [kind |-> "fallback", topic |-> None]
ApologyMsg   == [kind |-> "apology", topic |-> None]
NoText       == [kind |-> "none", topic |-> None]
GeneratedText(topic) == [kind |-> "generated", topic |-> topic]

GeneratorIsNone_NoCheck == FALSE
GeneratorIsNone == generator = None

\* the generator is used whether or not the load gave one
get_ai_explanation_NoGuard(topic, genRaises) ==
  IF genRaises
    THEN [text |-> ApologyMsg, called |-> TRUE]
    ELSE [text |-> GeneratedText(topic), called |-> TRUE]

\* an exception of the generation is not caught: no text comes back
get_ai_explanation_NoCatch(topic, genRaises) ==
  IF generator = None
    THEN [text |-> FallbackMsg, called |-> FALSE]
    ELSE IF genRaises
      THEN [text |-> NoText, called |-> TRUE]
      ELSE [text |-> GeneratedText(topic), called |-> TRUE]

\* genRaises: the generator call, or taking result[0]['generated_text'],
\* raises
get_ai_explanation(topic, genRaises) ==
  IF GeneratorIsNone
    THEN [text |-> FallbackMsg, called |-> FALSE]
    ELSE IF genRaises \/ generator = None
      THEN [text |-> ApologyMsg, called |-> generator # None]
      ELSE [text |-> GeneratedText(topic), called |-> TRUE]

\* ------------------------------------------------------------- query log
QueryRow(topic, ai_response) == [topic |-> topic, ai_response |-> ai_response]

\* connected: what connection.is_connected() answers in the finally block.
\* When cursor() raised, the name cursor is unbound there, so cursor.close()
\* raises UnboundLocalError out of the function.
\* open: the connection the call acquired is still open when it returns;
\* connection.close() comes after cursor.close() and is skipped when that
\* raises, and a connection that is no longer connected has nothing open.
save_to_database(rows, topic, ai_response, fault, connected) ==
  CASE fault = "noconn" ->
         [rows |-> rows, raised |-> "none", open |-> FALSE]
    [] fault = "cursor" ->
         [rows |-> rows,
          raised |-> IF connected THEN "UnboundLocalError" ELSE "none",
          open |-> connected]
    [] fault \in {"execute", "commit"} ->
         [rows |-> rows, raised |-> "none", open |-> FALSE]
    [] fault = "ok" ->
         [rows |-> Append(rows, QueryRow(topic, ai_response)),
          raised |-> "none", open |-> FALSE]

TopicMissing_OnlyNone(topic) == topic = None
TopicMissing(topic) == topic \in {None, ""}

\* error: the 'error' field of the JSON answer, None when it has none
\* genRaised: the generator was called and the generation raised
\* connOpen: save_to_database left its connection open
ExplainAnswer(body, topic, code, relevance, ai_response, called, fault, genRaised, connOpen) ==
  [body |-> body, topic |-> topic, code |-> code,
   error |-> IF code = 400 THEN "No topic provided" ELSE None,
   relevance |-> relevance, ai_response |-> ai_response, called |-> called,
   fault |-> fault, genRaised |-> genRaised, connOpen |-> connOpen]

NoExplain ==
  ExplainAnswer(None, None, 0, NoText, NoText, FALSE, None, FALSE, FALSE)

\* POST /get_relevance
get_relevance(body, topic, genRaises, fault, connected) ==
  IF body = "null"
    THEN \* data is None: data.get raises AttributeError, answered as 500
      /\ explainResp' =
           ExplainAnswer(body, None, 500, NoText, NoText, FALSE, None,
                         FALSE, FALSE)
      /\ UNCHANGED relevance_queries
    ELSE IF TopicMissing(topic)
      THEN
        /\ explainResp' =
             ExplainAnswer(body, topic, 400, NoText, NoText, FALSE, None,
                           FALSE, FALSE)
        /\ UNCHANGED relevance_queries
      ELSE
        LET ai    == get_ai_explanation(topic, genRaises)
            saved == save_to_database(relevance_queries, topic, ai.text,
                                      fault, connected)
        IN  /\ Len(saved.rows) <= MaxQueries
            /\ relevance_queries' = saved.rows
            /\ explainResp' =
                 IF saved.raised = "none"
                   THEN ExplainAnswer(body, topic, 200, ai.text, ai.text,
                                      ai.called, fault,
                                      ai.called /\ genRaises, saved.open)
                   ELSE ExplainAnswer(body, topic, 500, NoText, ai.text,
                                      ai.called, fault,
                                      ai.called /\ genRaises, saved.open)

GetRelevance ==
  \E body \in ExplainBodies, topic \in TopicInputs, genRaises \in BOOLEAN,
     fault \in DbFaults, connected \in BOOLEAN :
    /\ get_relevance(body, topic, genRaises, fault, connected)
    /\ UNCHANGED <<generator, loadAttempts, initiated, phones, payments, local, payResp>>

\* ---------------------------------------------------------- payment store
PaymentRow(user_email, transaction_id, amount, currency) ==
  [user_email |-> user_email, transaction_id |-> transaction_id,
   amount |-> amount, currency |-> currency, status |-> "completed"]

\* a failed commit is not rolled back: the inserted row stays
create_user_payment_NoRollback(rows, user_email, transaction_id, amount, currency, fault, connected) ==
  CASE fault = "noconn" -> [rows |-> rows, ret |-> "False", open |-> FALSE]
    [] fault = "cursor" ->
         [rows |-> rows, ret |-> IF connected THEN "raised" ELSE "False",
          open |-> connected]
    [] fault = "execute" -> [rows |-> rows, ret |-> "False", open |-> FALSE]
    [] fault = "commit" ->
         [rows |-> Append(rows, PaymentRow(user_email, transaction_id,
                                           amount, currency)),
          ret |-> "False", open |-> FALSE]
    [] fault = "ok" ->
         [rows |-> Append(rows, PaymentRow(user_email, transaction_id,
                                           amount, currency)),
          ret |-> "True", open |-> FALSE]

\* ret is "True" or "False", or "raised" when the finally block raises
\* UnboundLocalError in place of the return
\* open: as for save_to_database
create_user_payment(rows, user_email, transaction_id, amount, currency, fault, connected) ==
  CASE fault = "noconn" -> [rows |-> rows, ret |-> "False", open |-> FALSE]
    [] fault = "cursor" ->
         [rows |-> rows, ret |-> IF connected THEN "raised" ELSE "False",
          open |-> connected]
    [] fault \in {"execute", "commit"} ->
         [rows |-> rows, ret |-> "False", open |-> FALSE]
    [] fault = "ok" ->
         [rows |-> Append(rows, PaymentRow(user_email, transaction_id,
                                           amount, currency)),
          ret |-> "True", open |-> FALSE]

\* ------------------------------------------------------- request threads
Idle == [op |-> "idle", transaction_id |-> None, observed |-> None]
Writing(op, transaction_id, observed) ==
  [op |-> op, transaction_id |-> transaction_id, observed |-> observed]

PayAnswer(op, transaction_id, observed, code, body, ret) ==
  [op |-> op, transaction_id |-> transaction_id, observed |-> observed,
   code |-> code, body |-> body, ret |-> ret]

NoAnswer == PayAnswer(None, None, None, 0, None, None)

StateIsComplete_NotPending(state) == state # "PENDING"
StateIsComplete(state) == state = "COMPLETE"

EventIsCompleted_Any(event) == TRUE
EventIsCompleted(event) == event = "payment.completed"

\* GET /check-payment-status/<invoice_id>, up to the call of
\* create_user_payment: the gateway is asked; an exception is answered 400,
\* a state other than COMPLETE is answered with the gateway's dict as it is
CheckPaymentStatusCall(t, invoice_id, gw) ==
  /\ local[t] = Idle
  /\ IF gw = "raise"
       THEN /\ payResp' = PayAnswer("poll", invoice_id, gw, 400, "error",
                                    "notcalled")
            /\ UNCHANGED local
       ELSE IF StateIsComplete(gw)
         THEN /\ local' = [local EXCEPT ![t] = Writing("poll", invoice_id, gw)]
              /\ UNCHANGED payResp
         ELSE /\ payResp' = PayAnswer("poll", invoice_id, gw, 200, gw,
                                      "notcalled")
              /\ UNCHANGED local
  /\ UNCHANGED <<generator, loadAttempts, initiated, phones, relevance_queries, payments,
                 explainResp>>

\* the rest of check_payment_status: create_user_payment, whose result is
\* dropped, then jsonify(status); an exception out of it is answered 400
CheckPaymentStatusWrite(t, fault, connected) ==
  /\ local[t].op = "poll"
  /\ LET w == local[t]
         r == create_user_payment(payments, Email, w.transaction_id,
                                  PRICE_PREMIUM_ACCESS, "KES", fault,
                                  connected)
     IN  /\ Len(r.rows) <= MaxPayments
         /\ payments' = r.rows
         /\ payResp' =
              IF r.ret = "raised"
                THEN PayAnswer("poll", w.transaction_id, w.observed, 400,
                               "error", r.ret)
                ELSE PayAnswer("poll", w.transaction_id, w.observed, 200,
                               w.observed, r.ret)
  /\ local' = [local EXCEPT ![t] = Idle]
  /\ UNCHANGED <<generator, loadAttempts, initiated, phones, relevance_queries, explainResp>>

\* POST /webhook, up to the call of create_user_payment: a null body or a
\* customer that is no dict raises AttributeError, answered 400; an event
\* other than payment.completed is acknowledged
WebhookCall(t, data) ==
  /\ local[t] = Idle
  /\ IF data.body = "null"
       THEN /\ payResp' = PayAnswer("webhook", None, None, 400, "error",
                                    "notcalled")
            /\ UNCHANGED local
       ELSE IF EventIsCompleted(data.event)
         THEN IF data.customer = "malformed"
                THEN /\ payResp' = PayAnswer("webhook", data.transaction_id,
                                             data.event, 400, "error",
                                             "notcalled")
                     /\ UNCHANGED local
                ELSE /\ local' = [local EXCEPT ![t] =
                           Writing("webhook", data.transaction_id, data.event)]
                     /\ UNCHANGED payResp
         ELSE /\ payResp' = PayAnswer("webhook", data.transaction_id,
                                      data.event, 200, "webhook received",
                                      "notcalled")
              /\ UNCHANGED local
  /\ UNCHANGED <<generator, loadAttempts, initiated, phones, relevance_queries, payments,
                 explainResp>>

\* the rest of intasend_webhook: create_user_payment, whose result is
\* dropped, then the acknowledgement; an exception out of it is answered 400
WebhookWrite(t, fault, connected) ==
  /\ local[t].op = "webhook"
  /\ LET w == local[t]
         r == create_user_payment(payments, Email, w.transaction_id,
                                  PRICE_PREMIUM_ACCESS, "KES", fault,
                                  connected)
     IN  /\ Len(r.rows) <= MaxPayments
         /\ payments' = r.rows
         /\ payResp' =
              IF r.ret = "raised"
                THEN PayAnswer("webhook", w.transaction_id, w.observed, 400,
                               "error", r.ret)
                ELSE PayAnswer("webhook", w.transaction_id, w.observed, 200,
                               "webhook received", r.ret)
  /\ local' = [local EXCEPT ![t] = Idle]
  /\ UNCHANGED <<generator, loadAttempts, initiated, phones, relevance_queries, explainResp>>

CheckPaymentStatusBegin ==
  \E t \in Workers, invoice_id \in Invoices, gw \in GatewayResults :
    CheckPaymentStatusCall(t, invoice_id, gw)

CheckPaymentStatusFinish ==
  \E t \in Workers, fault \in DbFaults, connected \in BOOLEAN :
    CheckPaymentStatusWrite(t, fault, connected)

WebhookBegin ==
  \E t \in Workers, data \in WebhookPayloads : WebhookCall(t, data)

WebhookFinish ==
  \E t \in Workers, fault \in DbFaults, connected \in BOOLEAN :
    WebhookWrite(t, fault, connected)

\* ---------------------------------------------------- payment initiation
CountryCode == <<"2", "5", "4">>

\* str.startswith
StartsWith(str, prefix) ==
  Len(str) >= Len(prefix) /\ SubSeq(str, 1, Len(prefix)) = prefix

\* the leading 0 is kept behind the country code
NormalizePhone_KeepZero(phone) ==
  IF StartsWith(phone, <<"0">>)
    THEN CountryCode \o phone
    ELSE IF ~StartsWith(phone, CountryCode)
      THEN CountryCode \o phone
      ELSE phone

\* the elif is an else: the country code is prepended to everything else
NormalizePhone_AlwaysPrepend(phone) ==
  IF StartsWith(phone, <<"0">>)
    THEN CountryCode \o Tail(phone)
    ELSE CountryCode \o phone

\* "Format phone number (ensure it starts with 254)"
NormalizePhone(phone) ==
  IF StartsWith(phone, <<"0">>)
    THEN CountryCode \o Tail(phone)
    ELSE IF ~StartsWith(phone, CountryCode)
      THEN CountryCode \o phone
      ELSE phone

\* not email
EmailMissing(email) == email \in {None, ""}

PhoneMissing_OnlyNone(data) == ~data.hasPhone
\* not phone
PhoneMissing(data) == ~data.hasPhone \/ data.phone = <<>>

PushAmount_FromRequest(data) == data.amount
\* the amount argument of mpesa_stk_push
PushAmount(data) == PRICE_PREMIUM_ACCESS

\* the request, what the gateway was called with (called false: it was not
\* called), what it gave back, and the answer
InitiateAnswer(data, called, phone_number, amount, currency, push, code, success, invoice_id) ==
  [op |-> "initiate", data |-> data, called |-> called,
   phone_number |-> phone_number, amount |-> amount, currency |-> currency,
   push |-> push, code |-> code, success |-> success,
   invoice_id |-> invoice_id]

NotCalled(data) ==
  InitiateAnswer(data, FALSE, <<>>, 0, None, None, 400, FALSE, None)

\* POST /initiate-payment
initiate_payment(data, push) ==
  IF EmailMissing(data.email) \/ PhoneMissing(data)
    THEN /\ payResp' = NotCalled(data)
         /\ UNCHANGED initiated
    ELSE IF ~data.hasPhone
      THEN \* phone is None: phone.startswith raises AttributeError
           /\ payResp' = NotCalled(data)
           /\ UNCHANGED initiated
      ELSE
        LET phone == NormalizePhone(data.phone)
        IN  IF push \in Invoices
              THEN /\ payResp' = InitiateAnswer(data, TRUE, phone,
                                                PushAmount(data), "KES", push,
                                                200, TRUE, push)
                   /\ initiated' = initiated \cup {push}
              ELSE \* the call raised, or response['invoice'] raises KeyError
                   /\ payResp' = InitiateAnswer(data, TRUE, phone,
                                                PushAmount(data), "KES", push,
                                                400, FALSE, None)
                   /\ UNCHANGED initiated

InitiatePayment ==
  \E data \in InitiateRequests, push \in PushResults :
    /\ initiate_payment(data, push)
    /\ UNCHANGED <<generator, loadAttempts, relevance_queries, payments,
                   local, explainResp, phones>>

\* POST /initiate-payment with a well-formed body
GivenRequest ==
  [email |-> Email, hasPhone |-> TRUE, phone |-> <<"0", "7">>, amount |-> 1]

InitiatePaymentGiven ==
  \E push \in PushResults :
    /\ initiate_payment(GivenRequest, push)
    /\ UNCHANGED <<generator, loadAttempts, relevance_queries, payments,
                   local, explainResp, phones>>

\* one application of the phone formatting to the last form reached
NormalizeStep ==
  /\ Len(phones) \in {1, 2}
  /\ phones' = Append(phones, NormalizePhone(phones[Len(phones)]))
  /\ UNCHANGED <<generator, loadAttempts, relevance_queries, payments,
                 local, payResp, explainResp, initiated>>

\* ------------------------------------------------------- specifications
\* the import of app.py loads the model once; the load succeeds or raises
Init ==
  /\ generator \in {"loaded", None}
  /\ loadAttempts = 1
  /\ relevance_queries = <<>>
  /\ payments = <<>>
  /\ local = [t \in Workers |-> Idle]
  /\ payResp = NoAnswer
  /\ explainResp = NoExplain
  /\ initiated = {}
  /\ phones = <<>>

\* the same, with a phone string to format
InitPhone ==
  /\ generator \in {"loaded", None}
  /\ loadAttempts = 1
  /\ relevance_queries = <<>>
  /\ payments = <<>>
  /\ local = [t \in Workers |-> Idle]
  /\ payResp = NoAnswer
  /\ explainResp = NoExplain
  /\ initiated = {}
  /\ \E phone \in PhoneStrings : phones = <<phone>>

PayNext ==
  \/ CheckPaymentStatusBegin
  \/ CheckPaymentStatusFinish
  \/ WebhookBegin
  \/ WebhookFinish

ExplainNext == GetRelevance

SpecPay == Init /\ [][PayNext]_vars

SpecExplain == Init /\ [][ExplainNext]_vars

InitiateNext == InitiatePayment

SpecInitiate == Init /\ [][InitiateNext]_vars

\* initiation, polls and webhooks together
LedgerNext ==
  \/ InitiatePaymentGiven
  \/ CheckPaymentStatusBegin
  \/ CheckPaymentStatusFinish
  \/ WebhookBegin
  \/ WebhookFinish

SpecLedger == Init /\ [][LedgerNext]_vars

PhoneNext == NormalizeStep

SpecPhone == InitPhone /\ [][PhoneNext]_vars

\* ------------------------------------------------------------ properties
\* number of payments rows whose transaction_id is the invoice
Count(rows, invoice_id) ==
  Cardinality({i \in DOMAIN rows : rows[i].transaction_id = invoice_id})

\* the step ends the request thread t was serving
Finishes(t) == local[t] # Idle /\ local'[t] = Idle

\* the answer is that of a COMPLETE observation for the invoice through the
\* path, whose record write succeeded
AppliedComplete(answer, path, invoice_id) ==
  /\ answer.op = path
  /\ answer.transaction_id = invoice_id
  /\ answer.ret = "True"

Paths == {"poll", "webhook"}

\* C1: in every reachable state the payments store holds at most one
\* PaymentRecord per invoice id, whatever polls and webhooks were served.
C1_AtMostOneRecordPerInvoice ==
  \A invoice_id \in Invoices : Count(payments, invoice_id) <= 1

\* C2: when a COMPLETE observation for an invoice has been applied through
\* one path and the same observation is applied again through the same path
\* (by the same thread afterwards, or by a thread that ran concurrently),
\* exactly one PaymentRecord exists for the invoice afterwards.
C2_SamePathTwiceOneRecord ==
  [][\A t \in Workers, path \in Paths, invoice_id \in Invoices :
       ( /\ AppliedComplete(payResp, path, invoice_id)
         /\ Finishes(t)
         /\ local[t].op = path
         /\ local[t].transaction_id = invoice_id )
       => Count(payments', invoice_id) = 1]_vars

\* C3: when a COMPLETE observation for an invoice has been applied through
\* one channel (webhook or poll) and the other channel applies its COMPLETE
\* observation for the same invoice, in either order or interleaved, exactly
\* one PaymentRecord exists for the invoice afterwards.
C3_CrossChannelOneRecord ==
  [][\A t \in Workers, path \in Paths, invoice_id \in Invoices :
       ( /\ AppliedComplete(payResp, path, invoice_id)
         /\ Finishes(t)
         /\ local[t].op \in Paths \ {path}
         /\ local[t].transaction_id = invoice_id )
       => Count(payments', invoice_id) = 1]_vars

\* C4: once an invoice has its PaymentRecord, a poll for which the gateway
\* reports FAILED is answered with state COMPLETE and leaves the payments
\* store as it was.
C4_FailedAfterCompleteIgnored ==
  [][\A invoice_id \in Invoices :
       ( /\ Count(payments, invoice_id) >= 1
         /\ payResp' # payResp
         /\ payResp'.op = "poll"
         /\ payResp'.transaction_id = invoice_id
         /\ payResp'.observed = "FAILED" )
       => (payResp'.body = "COMPLETE" /\ payments' = payments)]_vars

\* C5: the payments store changes only in a step that answers a poll whose
\* gateway state is COMPLETE or a webhook whose event is payment.completed;
\* every other poll or webhook leaves it unchanged.
C5_WriteOnlyForComplete ==
  [][payments' # payments
       => \/ (payResp'.op = "poll" /\ payResp'.observed = "COMPLETE")
          \/ (payResp'.op = "webhook"
              /\ payResp'.observed = "payment.completed")]_vars

\* a FAILED poll was answered while the store holds a record
C5_Witness ==
  /\ payResp.op = "poll"
  /\ payResp.observed = "FAILED"
  /\ payResp.code = 200
  /\ Len(payments) > 0

\* C6: every webhook delivery is answered with a success status.
C6_WebhookAlwaysSuccess ==
  payResp.op = "webhook" => payResp.code = 200

\* C7: when a poll observes COMPLETE and create_user_payment returns False,
\* the answer signals the failure (an error status or an error body).
C7_WriteFailureSurfaced ==
  (payResp.op = "poll" /\ payResp.observed = "COMPLETE"
     /\ payResp.ret = "False")
  => (payResp.code # 200 \/ payResp.body = "error")

\* C8: for a non-empty topic, when the query log fails at any step the
\* explain operation still answers 200 with the generated text.
C8_LoggingFailureAbsorbed ==
  (explainResp.body = "object" /\ explainResp.topic \in Topics
     /\ explainResp.fault \in DbFaults \ {"ok"})
  => (explainResp.code = 200
      /\ explainResp.relevance = explainResp.ai_response)

C10_UnavailableForever ==
  [][generator = None
       => /\ generator' = None
          /\ loadAttempts' = 1
          /\ explainResp'.topic \in Topics
               => /\ explainResp'.ai_response = FallbackMsg
                  /\ ~explainResp'.called]_vars

\* with the load failed, an explain call was answered with the fallback
C10_Witness ==
  /\ generator = None
  /\ explainResp.topic \in Topics
  /\ explainResp.code = 200
  /\ explainResp.relevance = FallbackMsg

C15_ConnectionReleased ==
  explainResp.topic \in Topics => ~explainResp.connOpen

\* C16: when the generator call or the extraction of its text raises,
\* get_ai_explanation returns the fixed apology string, and the explain
\* answer carries it whenever the query log does not fail.
C16_GenerationFaultBecomesApology ==
  explainResp.genRaised
    => /\ explainResp.ai_response = ApologyMsg
       /\ explainResp.fault = "ok"
            => /\ explainResp.code = 200
               /\ explainResp.relevance = ApologyMsg

\* the generation raised and the apology was answered and logged
C16_Witness ==
  /\ explainResp.genRaised
  /\ explainResp.code = 200
  /\ explainResp.relevance = ApologyMsg
  /\ Len(relevance_queries) > 0

\* C12: initiate_payment answers success with an invoice id only when the
\* push-payment call returned that invoice; with email or phone missing or
\* empty it answers 400 without calling the gateway; when the call raises or
\* returns no invoice it answers success false with status 400.
C12_InitiationNeverSilentlySucceeds ==
  payResp.op = "initiate"
    => /\ payResp.success
            => /\ payResp.called
               /\ payResp.push \in Invoices
               /\ payResp.invoice_id = payResp.push
               /\ payResp.code = 200
       /\ ( \/ payResp.data.email \in {None, ""}
            \/ ~payResp.data.hasPhone
            \/ payResp.data.phone = <<>> )
            => /\ ~payResp.called
               /\ ~payResp.success
               /\ payResp.code = 400
       /\ (payResp.called /\ payResp.push \notin Invoices)
            => /\ ~payResp.success
               /\ payResp.code = 400

\* a request with an empty phone was refused, after an invoice was handed out
C12_Witness ==
  /\ payResp.op = "initiate"
  /\ payResp.data.hasPhone
  /\ payResp.data.phone = <<>>
  /\ payResp.code = 400
  /\ initiated # {}

\* the first three characters of the string are 254
Has254(str) ==
  Len(str) >= 3 /\ str[1] = "2" /\ str[2] = "5" /\ str[3] = "4"

\* C13: a leading 0 is replaced by 254, a string that starts with 254 is
\* passed through unchanged, any other string gets 254 prepended; so
\* 0712345678, 254712345678 and 712345678 all become 254712345678.
C13_PhoneNormalization ==
  Len(phones) >= 2
    => LET phone == phones[1]
           out   == phones[2]
       IN  /\ phone[1] = "0"
                => out = <<"2", "5", "4">> \o SubSeq(phone, 2, Len(phone))
           /\ Has254(phone) => out = phone
           /\ (phone[1] # "0" /\ ~Has254(phone))
                => out = <<"2", "5", "4">> \o phone
           /\ phone \in {Phone0712345678, Phone712345678, Phone254712345678}
                => out = Phone254712345678

\* 0712345678 was formatted
C13_Witness ==
  /\ Len(phones) >= 2
  /\ phones[1] = Phone0712345678
  /\ phones[2] = Phone254712345678

\* C14: the state a poll answers with is one of PENDING, COMPLETE, FAILED,
\* ERROR; an unrecognized gateway state and a gateway error are answered as
\* ERROR.
C14_CanonicalStates ==
  payResp.op = "poll"
    => /\ payResp.body \in {"PENDING", "COMPLETE", "FAILED", "ERROR"}
       /\ payResp.observed \notin {"PENDING", "COMPLETE", "FAILED"}
            => payResp.body = "ERROR"

\* C17: create_user_payment returns True exactly when it has appended one
\* row to payments, and when it returns False payments is as it was.
C17_AllOrNothing ==
  [][\A t \in Workers :
       Finishes(t)
         => LET row == PaymentRow(Email, local[t].transaction_id,
                                  PRICE_PREMIUM_ACCESS, "KES")
            IN  /\ payResp'.ret = "True" <=> payments' = Append(payments, row)
                /\ payResp'.ret = "False" => payments' = payments]_vars

\* a write that returned False left the one recorded row alone
C17_Witness ==
  /\ payResp.op \in Paths
  /\ payResp.ret = "False"
  /\ Len(payments) = 1

\* C18: every payments row carries a transaction_id that an earlier
\* successful initiate_payment returned as invoice_id.
C18_RecordsOnlyForInitiated ==
  \A i \in DOMAIN payments : payments[i].transaction_id \in initiated

\* C19: whatever the request body holds, the gateway is called with the
\* configured premium price as amount and KES as currency.
C19_FixedAmountAndCurrency ==
  (payResp.op = "initiate" /\ payResp.called)
    => /\ payResp.amount = PRICE_PREMIUM_ACCESS
       /\ payResp.currency = "KES"

\* the gateway was called for a request that names another amount
C19_Witness ==
  /\ payResp.op = "initiate"
  /\ payResp.called
  /\ payResp.data.amount = 5000
  /\ payResp.amount = PRICE_PREMIUM_ACCESS

\* C20: formatting a non-empty phone string gives a string that starts with
\* 254, and formatting that again gives it back.
C20_NormalizationIdempotent ==
  /\ Len(phones) >= 2 => Has254(phones[2])
  /\ Len(phones) = 3 => phones[3] = phones[2]

\* a string with a leading 0 was formatted twice
C20_Witness ==
  /\ Len(phones) = 3
  /\ phones[1][1] = "0"
  /\ phones[3] = phones[2]

====
